---- MODULE Spec2Model ----
(***************************************************************************)
(* Model of cosmic-ext-radio: the playback controller (controller.rs), the *)
(* favourites store (config.rs) and the directory client                   *)
(* (radio_browser.rs).                                                     *)
(*                                                                         *)
(*   Spec     the controller loop of controller_main, with its spawned     *)
(*            lookup and save tasks and the player's event stream          *)
(*   SpecDir  one RadioBrowserClient running lookups (with_server_retry)   *)
(*   SpecFav  AppConfig::toggle_favorite applied to stored lists           *)
(***************************************************************************)
EXTENDS Naturals, Sequences, FiniteSets

\* ------------------------------------------------------------------ bounds

\* UI commands the controller loop takes in one run
MaxCmds == 2
\* player events the controller loop takes in one run
MaxEvents == 1
\* entries of a /json/servers answer
MaxServerList == 4
\* lookup tasks (search / resolve) spawned and not yet received by the loop
MaxTasks == 2
\* save tasks spawned and not yet finished
MaxSaves == 2
\* favourites a previous run left in the persisted record
MaxStoredFavs == 1
\* length of the stored favourites list the toggles start from
MaxFavLen == 2
\* spawn_and_connect calls of one run of the supervisor on its own
MaxSpawns == 7
\* spawn_and_connect calls of one run of the supervisor with the controller
MaxSessions == 2
\* lines read from the control socket in one run of the supervisor
MaxLines == 1
\* UI commands sent in one run with the supervisor
MaxUi == 2
\* Play commands sent in one run of crash recovery
MaxPlays == 1
\* UI commands of a run of searches
MaxSearches == 3

\* ------------------------------------------------------------ Option<T>

None == <<>>
Some(x) == <<x>>
IsSome(o) == o # <<>>
Unwrap(o) == o[1]

\* ------------------------------------------------------------- domains

StationRef(id, name) == [stationuuid |-> id, name |-> name]
\* the stations the UI can name in a command
StationRefs == {StationRef("u1", "Jazz"), StationRef("u2", "News")}
Titles == {"Song"}
\* mirror host names, and the ones the controller's lookups meet
Mirrors == {"de1", "fr1", "nl1", "us1"}
CtlMirrors == {"de1"}

\* ------------------------------------------------------- stream URLs

\* str::trim
Trim(s) ==
    CASE s = "http://h/s " -> "http://h/s"
      [] s = " " -> ""
      [] OTHER -> s

\* Url::parse(s).scheme(): the parser strips surrounding spaces and
\* lower-cases the scheme; None when the text is no absolute URL.
UrlParseScheme(s) ==
    CASE Trim(s) = "http://h/s" -> Some("http")
      [] Trim(s) = "HTTPS://h/s" -> Some("https")
      [] Trim(s) = "https://h/s" -> Some("https")
      [] Trim(s) = "file:///etc/passwd" -> Some("file")
      [] OTHER -> None

\* Url::to_string() of the parsed text: the normalised serialization.
UrlToString(s) ==
    CASE Trim(s) = "HTTPS://h/s" -> "https://h/s"
      [] OTHER -> Trim(s)

\* The scheme the player reads off a serialized URL.
SchemeOf(u) == Unwrap(UrlParseScheme(u))

\* --------------------------------------------------- anyhow::Result<T>

\* An error is its Display text (msg, with the action and attempt number of
\* a retry context) and the text of the error it wraps.
AnyErr(msg) == [msg |-> msg, action |-> "", attempt |-> 0, cause |-> ""]
Ok(v) == [ok |-> TRUE, val |-> v]
Err(e) == [ok |-> FALSE, val |-> e]
\* e.to_string(): the outermost context only; detail is the text a caller
\* formats into the message
ToString(e) ==
    [msg |-> e.msg, action |-> e.action, attempt |-> e.attempt, detail |-> ""]

parse_stream_url_any(s) ==
    IF UrlParseScheme(s) = None THEN Err(AnyErr("Invalid stream URL"))
    ELSE Ok(UrlToString(s))

parse_stream_url(s) ==
    IF UrlParseScheme(s) = None THEN Err(AnyErr("Invalid stream URL"))
    ELSE IF Unwrap(UrlParseScheme(s)) \in {"http", "https"}
         THEN Ok(UrlToString(s))
         ELSE Err(AnyErr("Unsupported stream URL scheme"))

\* ------------------------------------------- RadioBrowserClient, pure part

max_attempts == 4
\* backoff_ms = 200 * 2^attempt
BackoffBaseMs == 200

RECURSIVE Pow2(_)
Pow2(n) == IF n = 0 THEN 1 ELSE 2 * Pow2(n - 1)

\* What one mirror answers to GET /json/url/{id}.
\*   neterr    the request fails (transport error, timeout)
\*   redirect  a redirection status with a Location header = text
\*   json      a body that parses as {"url": text}
\*   text      any other body
\*   toolarge  a body over 64 KB
ResolveResponses ==
    {[kind |-> "neterr", text |-> ""], [kind |-> "toolarge", text |-> ""]}
    \cup {[kind |-> k, text |-> t] :
            k \in {"redirect", "json", "text"},
            t \in {"http://h/s", "http://h/s ", "HTTPS://h/s",
                   "file:///etc/passwd", "not a url"}}

\* What one mirror answers to GET /json/stations/search.
SearchResponsesOf(lists) ==
    {[kind |-> "neterr", list |-> <<>>], [kind |-> "toolarge", list |-> <<>>],
     [kind |-> "badjson", list |-> <<>>]}
    \cup {[kind |-> "json", list |-> l] : l \in lists}

\* The closure resolve_station_url hands to with_server_retry.
resolve_action(resp) ==
    CASE resp.kind = "neterr" -> Err(AnyErr("error sending request"))
      [] resp.kind = "redirect" -> parse_stream_url(resp.text)
      [] resp.kind = "toolarge" -> Err(AnyErr("HTTP response too large"))
      [] resp.kind = "json" -> parse_stream_url(resp.text)
      [] OTHER -> parse_stream_url(Trim(resp.text))

\* The closure search hands to with_server_retry.
search_action(resp) ==
    CASE resp.kind = "neterr" -> Err(AnyErr("error sending request"))
      [] resp.kind = "toolarge" -> Err(AnyErr("HTTP response too large"))
      [] resp.kind = "badjson" -> Err(AnyErr("Invalid stations search response"))
      [] OTHER -> Ok(resp.list)

Responses(action) ==
    IF action = "search" THEN SearchResponsesOf({<<"u1">>, <<"u1", "u2">>})
    ELSE ResolveResponses

RunAction(action, resp) ==
    IF action = "search" THEN search_action(resp) ELSE resolve_action(resp)

\* e.context(format!("{action} attempt {attempt} failed"))
AttemptContext(e, action, attempt) ==
    [msg |-> "attempt failed", action |-> action, attempt |-> attempt,
     cause |-> e.msg]

\* String order on the mirror names (Vec<String>::sort).
Rank(m) ==
    CASE m = "de1" -> 1
      [] m = "fr1" -> 2
      [] m = "nl1" -> 3
      [] OTHER -> 4

RECURSIVE InsertSorted(_, _)
InsertSorted(x, sorted) ==
    IF sorted = <<>> THEN <<x>>
    ELSE IF Rank(x) <= Rank(Head(sorted)) THEN <<x>> \o sorted
    ELSE <<Head(sorted)>> \o InsertSorted(x, Tail(sorted))

RECURSIVE Sort(_)
Sort(l) == IF l = <<>> THEN <<>> ELSE InsertSorted(Head(l), Sort(Tail(l)))

\* Vec::dedup: drops every element equal to the one before it
RECURSIVE Dedup(_)
Dedup(l) ==
    IF Len(l) <= 1 THEN l
    ELSE IF l[1] = l[2] THEN Dedup(Tail(l))
    ELSE <<l[1]>> \o Dedup(Tail(l))

Range(l) == {l[i] : i \in 1..Len(l)}

SeqsUpTo(S, n) == UNION {[1..k -> S] : k \in 0..n}

\* What the bootstrap host answers to GET /json/servers.
DiscoverResponsesOf(mirrors, n) ==
    {[kind |-> "neterr", names |-> <<>>], [kind |-> "toolarge", names |-> <<>>],
     [kind |-> "badjson", names |-> <<>>]}
    \cup {[kind |-> "json", names |-> l] : l \in SeqsUpTo(mirrors, n)}

discover_servers(resp) ==
    CASE resp.kind = "neterr" -> Err(AnyErr("Server discovery failed"))
      [] resp.kind = "toolarge" -> Err(AnyErr("HTTP response too large"))
      [] resp.kind = "badjson" -> Err(AnyErr("Invalid /json/servers response"))
      [] OTHER ->
           LET names == Dedup(Sort(resp.names))
           IN  IF names = <<>>
               THEN Err(AnyErr("Radio Browser server list was empty"))
               ELSE Ok(names)

\* servers.shuffle(..): any order of the same entries
Shuffles(l) ==
    {p \in [1..Len(l) -> Range(l)] :
        \A i \in 1..Len(l) : \E j \in 1..Len(l) : p[j] = l[i]}

\* iter().position(..): the first index (from 1) holding x, 0 when absent
Position(l, x) ==
    IF x \in Range(l) THEN CHOOSE i \in 1..Len(l) : l[i] = x /\ \A j \in 1..(i - 1) : l[j] # x
    ELSE 0

\* servers.swap(0, pos)
Swap0(l, pos) == [l EXCEPT ![1] = l[pos], ![pos] = l[1]]

NoSticky(servers, last) == servers

\* with_server_retry, lines 136-140: the last used mirror goes first
StickyFirst(servers, last) ==
    IF IsSome(last) /\ Position(servers, Unwrap(last)) # 0
    THEN Swap0(servers, Position(servers, Unwrap(last)))
    ELSE servers

\* servers.get(attempt % servers.len())
ServerFor(servers, attempt) == servers[(attempt % Len(servers)) + 1]

backoff_ms(attempt) == BackoffBaseMs * Pow2(attempt)

\* ------------------------------------- with_server_retry as one function

\* The answers the controller's client meets.
CtlResponses(action) ==
    IF action = "search" THEN SearchResponsesOf({<<"u1">>})
    ELSE ResolveResponses

CtlDiscoverResponses ==
    {r \in DiscoverResponsesOf(CtlMirrors, Cardinality(CtlMirrors)) :
        r.kind \in {"neterr", "json"}}

\* The results the closure can produce in one attempt.
AttemptResults(action) == {RunAction(action, r) : r \in CtlResponses(action)}

\* The attempt loop from attempt number `attempt` on, given what each
\* attempt's closure returns: the result and the mirror it records.
RECURSIVE RetryFrom(_, _, _, _, _)
RetryFrom(servers, action, results, attempt, last_err) ==
    IF attempt = max_attempts
    THEN [res |-> Err(Unwrap(last_err)), server |-> None]
    ELSE LET r == results[attempt + 1]
         IN  IF r.ok
             THEN [res |-> r, server |-> Some(ServerFor(servers, attempt))]
             ELSE RetryFrom(servers, action, results, attempt + 1,
                            Some(AttemptContext(r.val, action, attempt)))

with_server_retry(action, last, resp, shuffled, results) ==
    LET d == discover_servers(resp)
    IN  IF ~d.ok THEN [res |-> d, server |-> None]
        ELSE RetryFrom(StickyFirst(shuffled, last), action, results, 0, None)

\* The attempt results of a lookup whose first k attempts fail alike and
\* whose later attempts return r.
ResultRuns(action) ==
    {[i \in 1..max_attempts |-> IF i <= k THEN e ELSE r] :
        k \in 0..max_attempts,
        e \in {x \in AttemptResults(action) : ~x.ok},
        r \in AttemptResults(action)}

\* Every way a search (of a non-blank query) or a resolve_station_url (of a
\* non-blank id) ends for the controller's client, given the mirror the
\* client last used.
RetryOutcomes(action, last) ==
    UNION {
        LET d == discover_servers(resp)
        IN  {with_server_retry(action, last, resp, shuffled, results) :
                shuffled \in (IF d.ok THEN Shuffles(d.val) ELSE {<<>>}),
                results \in ResultRuns(action)}
        : resp \in CtlDiscoverResponses}

\* RadioBrowserClient::search / resolve_station_url: the blank argument
\* returns before any request.
LookupOutcomes(action, arg, last) ==
    IF Trim(arg) = ""
    THEN {[res |-> IF action = "search" THEN Ok(<<>>)
                   ELSE Err(AnyErr("Missing station UUID")),
           server |-> None]}
    ELSE RetryOutcomes(action, last)

\* ------------------------------------------------------------ AppConfig

RemoveAt(l, i) == SubSeq(l, 1, i - 1) \o SubSeq(l, i + 1, Len(l))

\* favorites.iter().position(|s| s.stationuuid == station.stationuuid)
IdPosition(favs, id) ==
    IF \E i \in 1..Len(favs) : favs[i].stationuuid = id
    THEN CHOOSE i \in 1..Len(favs) :
            /\ favs[i].stationuuid = id
            /\ \A j \in 1..(i - 1) : favs[j].stationuuid # id
    ELSE 0

toggle_favorite_push(favs, station) == Append(favs, station)

toggle_favorite_pop(favs, station) ==
    IF IdPosition(favs, station.stationuuid) # 0
    THEN SubSeq(favs, 1, Len(favs) - 1)
    ELSE Append(favs, station)

toggle_favorite(favs, station) ==
    IF IdPosition(favs, station.stationuuid) # 0
    THEN RemoveAt(favs, IdPosition(favs, station.stationuuid))
    ELSE Append(favs, station)

NoDupIds(favs) ==
    \A i, j \in 1..Len(favs) : favs[i].stationuuid = favs[j].stationuuid => i = j

\* AppConfig::default()
DefaultConfig == [last_station |-> None, last_server |-> None, favorites |-> <<>>]

\* The favourites lists an earlier run can have saved: toggle_favorite builds
\* lists without a repeated id.
StoredFavorites ==
    {l \in SeqsUpTo(StationRefs, MaxStoredFavs) : l # <<>> /\ NoDupIds(l)}

\* The records an earlier run can have left in the store (save_atomic writes
\* the in-memory config): none (load gives the default), or a record with
\* favourites, the mirror of a resolution, and as last station the first
\* favourite or none (after a Stop).
StoredConfigs ==
    {DefaultConfig}
    \cup {[last_station |-> ls, last_server |-> Some(m), favorites |-> f] :
            m \in CtlMirrors, f \in StoredFavorites, ls \in {None}}
    \cup {[last_station |-> Some(f[1]), last_server |-> Some(m), favorites |-> f] :
            m \in CtlMirrors, f \in StoredFavorites}

\* ------------------------------------------------------- mpv.rs: values

\* MpvEvent
EvtReady == [kind |-> "Ready", title |-> None, paused |-> FALSE, reason |-> ""]
EvtMediaTitle(t) == [kind |-> "MediaTitle", title |-> t, paused |-> FALSE, reason |-> ""]
EvtPause(p) == [kind |-> "Pause", title |-> None, paused |-> p, reason |-> ""]
EvtCrashed(e) == [kind |-> "Crashed", title |-> None, paused |-> FALSE, reason |-> e]

\* UiCommand
UiSearch(q) == [cmd |-> "Search", query |-> q, station |-> None]
UiPlay(st) == [cmd |-> "Play", query |-> "", station |-> Some(st)]
UiTogglePause == [cmd |-> "TogglePause", query |-> "", station |-> None]
UiStop == [cmd |-> "Stop", query |-> "", station |-> None]
UiToggleFavorite(st) == [cmd |-> "ToggleFavorite", query |-> "", station |-> Some(st)]
UiShutdown == [cmd |-> "Shutdown", query |-> "", station |-> None]

\* A JSON value in a field of a line: absent, null, a string, a boolean or a
\* number.
JAbsent == [t |-> "absent", s |-> "", b |-> FALSE]
JNull == [t |-> "null", s |-> "", b |-> FALSE]
JStr(s) == [t |-> "string", s |-> s, b |-> FALSE]
JBool(b) == [t |-> "bool", s |-> "", b |-> b]
JNum == [t |-> "number", s |-> "", b |-> FALSE]

\* A line read from the control socket: text that is no JSON, or a JSON
\* object with its event, name and data fields, or bytes that are no text.
NotJson ==
    [utf8 |-> TRUE, json |-> FALSE, event |-> JAbsent, name |-> JAbsent,
     data |-> JAbsent]
JObject(event, name, data) ==
    [utf8 |-> TRUE, json |-> TRUE, event |-> event, name |-> name, data |-> data]
\* bytes up to a newline that are no valid UTF-8
InvalidUtf8 ==
    [utf8 |-> FALSE, json |-> FALSE, event |-> JAbsent, name |-> JAbsent,
     data |-> JAbsent]

Lines ==
    {NotJson}
    \cup {JObject(e, n, d) :
            e \in {JAbsent, JNull, JStr("property-change"), JStr("end-file"),
                   JNum},
            n \in {JAbsent, JStr("media-title"), JStr("pause"),
                   JStr("volume"), JNum},
            d \in {JAbsent, JNull, JStr("Song"), JBool(TRUE), JBool(FALSE),
                   JNum}}

\* #[serde(default)] Option<String>: absent and null give None, a string
\* gives Some, any other value fails the deserialization
opt_string(j) ==
    [ok |-> j.t \in {"absent", "null", "string"},
     val |-> IF j.t = "string" THEN Some(j.s) ELSE None]

\* #[serde(default)] Option<serde_json::Value>
opt_value(j) == IF j.t \in {"absent", "null"} THEN None ELSE Some(j)

is_property_change_always(event) == TRUE

\* incoming.event.as_deref() == Some("property-change")
is_property_change(event) == event = Some("property-change")

\* parse_event(line)
parse_event(line) ==
    IF ~line.json \/ ~opt_string(line.event).ok \/ ~opt_string(line.name).ok
    THEN Err(AnyErr("Invalid mpv IPC JSON"))
    ELSE LET event == opt_string(line.event).val
             name == opt_string(line.name).val
             data == opt_value(line.data)
         IN  IF ~is_property_change(event)
             THEN Err(AnyErr("Not a property-change event"))
             ELSE IF name = Some("media-title")
             THEN Ok(EvtMediaTitle(IF IsSome(data) /\ Unwrap(data).t = "string"
                                   THEN Some(Unwrap(data).s) ELSE None))
             ELSE IF name = Some("pause")
             THEN Ok(EvtPause(IF IsSome(data) /\ Unwrap(data).t = "bool"
                              THEN Unwrap(data).b ELSE FALSE))
             ELSE Err(AnyErr("Unrecognized property-change"))

\* let mut backoff = Duration::from_millis(200)
backoff_start == 200
\* Duration::from_secs(5)
backoff_max == 5000

Min(a, b) == IF a < b THEN a ELSE b

\* The supervisor task, its channels and its player processes.
\* pc: unmodelled (the supervisor and the UI are the environment of
\*       controller_main: their events and commands arrive at any time),
\*     unspawned (MpvProcess::spawn not called yet), start (top of the loop
\*       of run_mpv), connecting (inside spawn_and_connect, the player
\*       started), connected (inside io_loop), backoff (inside the sleep of
\*       line 71), done (run_mpv returned), cancelled (the task was dropped
\*       with its runtime).
\* child: the Child the task holds: none, alive, exited, killed.
\* observers: the observe_property requests written in this session.
\* orphans: the player processes that were running when their Child was
\* dropped.
\* slept: the delays slept since the last connect; fails: the spawn/connect
\* failures since the last connect.
\* spawns, lines, ui_left: the spawn_and_connect calls, the lines read and
\* the UI commands left to this run.
\* lost: the commands taken from cmd_q whose write failed.
\* shutdown: a Shutdown command was taken.
\* ui_shutdown: the UI has sent Shutdown.
MpvIdle ==
    [pc |-> "unmodelled", backoff |-> backoff_start, fails |-> 0,
     slept |-> <<>>, child |-> "none", orphans |-> 0, observers |-> 0,
     cmd_q |-> <<>>, evt_q |-> <<>>, ui_q |-> <<>>, ui_left |-> 0,
     ui_shutdown |-> FALSE, spawns |-> 0, lines |-> 0, lost |-> 0,
     shutdown |-> FALSE, parsed |-> None]

\* ------------------------------------------------------------- variables

VARIABLES
    pc,           \* where controller_main is: load, socket, loop, crash_sleep,
                  \* await_rb, stopped
    state,        \* ControllerState owned by the loop
    published,    \* the value held by the watch channel
    config,       \* the loop's AppConfig
    persisted,    \* the record in the config store
    saves,        \* configs of the save tasks spawned and not finished
    current_url,  \* Option<String>
    want_paused,  \* bool
    waiting,      \* lookup tasks spawned, not yet holding the client's lock
    running,      \* the lookup task holding the client's lock, if any
    internal_q,   \* InternalMsg channel
    last_server,  \* RadioBrowserClient.last_server
    last,         \* the step just taken: its kind and its input
    sent,         \* the MpvCommands that step enqueued, in order
    sends,        \* the number of snapshots that step published
    inputs,       \* the UI commands and the player events taken so far
    dir,          \* one lookup of the directory client, step by step
    fav,          \* a stored favourites list under toggles
    mpv           \* the player supervisor (run_mpv), its channels and the
                  \* player processes it started

vars == <<pc, state, published, config, persisted, saves, current_url,
          want_paused, waiting, running, internal_q, last_server, last, sent,
          sends, inputs, dir, fav, mpv>>

ctl_vars == <<pc, state, published, config, persisted, saves, current_url,
              want_paused, waiting, running, internal_q, last, sent, sends,
              inputs, mpv>>

Step(kind, arg) == [kind |-> kind, arg |-> arg]

\* start_controller: the value the watch channel is created with
InitialState ==
    [phase |-> "NotConfigured", station |-> None, media_title |-> None,
     error |-> None, search_query |-> "", search_loading |-> FALSE,
     search_results |-> <<>>, favorites |-> <<>>]

DirIdle ==
    [pc |-> "idle", action |-> "", arg |-> "", servers |-> <<>>, attempt |-> 0,
     last_err |-> None, result |-> None, log |-> <<>>, last_res |-> None,
     sleeps |-> <<>>, discovered |-> FALSE, last0 |-> None]

FavIdle ==
    [favs |-> <<>>, before |-> <<>>, first |-> None, second |-> None,
     toggles |-> 0]

InitCtl ==
    /\ pc = "load"
    /\ state = InitialState
    /\ published = InitialState
    /\ config = DefaultConfig
    /\ persisted \in StoredConfigs
    /\ saves = {}
    /\ current_url = None
    /\ want_paused = FALSE
    /\ waiting = <<>>
    /\ running = None
    /\ internal_q = <<>>
    /\ last = Step("init", "")
    /\ sent = <<>>
    /\ sends = 0
    /\ inputs = [cmds |-> 0, events |-> 0]

Init ==
    /\ InitCtl
    /\ last_server = None
    /\ dir = DirIdle
    /\ fav = FavIdle
    /\ mpv = MpvIdle

\* run_mpv is part of the model
Supervised == mpv.pc # "unmodelled"

RecvCmdAny(c) ==
    IF Supervised THEN \E i \in 1..Len(mpv.ui_q) : mpv.ui_q[i] = c
    ELSE inputs.cmds < MaxCmds

\* cmd_rx.recv() yields c
RecvCmd(c) ==
    IF Supervised THEN mpv.ui_q # <<>> /\ Head(mpv.ui_q) = c
    ELSE inputs.cmds < MaxCmds

\* mpv_events.recv() yields ev
RecvEvent(ev) ==
    IF Supervised THEN mpv.evt_q # <<>> /\ Head(mpv.evt_q) = ev
    ELSE inputs.events < MaxEvents

SentInSession(cmds) ==
    IF Supervised /\ mpv.pc = "connected"
    THEN [mpv EXCEPT !.cmd_q = @ \o cmds] ELSE mpv

\* mpv.command(cmd) for each of cmds: cmd_tx.send
Sent(cmds) ==
    IF Supervised /\ mpv.pc \notin {"done", "cancelled"}
    THEN [mpv EXCEPT !.cmd_q = @ \o cmds] ELSE mpv

\* the channels after the handler of a UI command that sent cmds
CmdTaken(cmds) ==
    IF Supervised THEN [Sent(cmds) EXCEPT !.ui_q = Tail(@)] ELSE mpv

\* the channels after the handler of a player event that sent cmds
EventTaken(cmds) ==
    IF Supervised THEN [Sent(cmds) EXCEPT !.evt_q = Tail(@)] ELSE mpv

\* MpvProcess::spawn: tokio::spawn(run_mpv(..))
Spawned == IF Supervised THEN [mpv EXCEPT !.pc = "start"] ELSE mpv

\* ------------------------------------------------------- controller_main

\* MpvCommand values; the argument is text ("" when the command has none)
LoadUrl(url) == [cmd |-> "LoadUrl", arg |-> url]
SetPause(p) == [cmd |-> "SetPause", arg |-> IF p THEN "true" ELSE "false"]
SetTitle(name) == [cmd |-> "SetTitle", arg |-> name]
CmdTogglePause == [cmd |-> "TogglePause", arg |-> ""]
CmdStop == [cmd |-> "Stop", arg |-> ""]
CmdShutdown == [cmd |-> "Shutdown", arg |-> ""]

SearchTask(q) == [kind |-> "search", query |-> q, station |-> None]
ResolveTask(st) == [kind |-> "resolve", query |-> "", station |-> Some(st)]

InFlight == Len(waiting) + Len(running) + Len(internal_q)

\* a save of cfg can be spawned within the bound
CanSave(cfg) == cfg \in saves \/ Cardinality(saves) < MaxSaves

LoadedPhaseNotConfigured(station) == "NotConfigured"

\* state.phase = if state.station.is_some() { Idle } else { NotConfigured }
LoadedPhase(station) == IF IsSome(station) THEN "Idle" ELSE "NotConfigured"

\* let mut config = spawn_blocking(AppConfig::load)...; publish the loaded
\* favourites and last station (lines 111-123)
LoadConfig ==
    /\ pc = "load"
    /\ config' = persisted
    /\ state' = [state EXCEPT
                    !.favorites = persisted.favorites,
                    !.station = persisted.last_station,
                    !.phase = LoadedPhase(persisted.last_station)]
    /\ published' = state'
    /\ pc' = "socket"
    /\ last' = Step("LoadConfig", "")
    /\ sent' = <<>>
    /\ sends' = 1
    /\ UNCHANGED <<inputs, persisted, saves, current_url, want_paused, waiting,
                   running, internal_q, last_server, dir, fav, mpv>>

\* AppConfig::load fails (unreadable file, invalid TOML): `?` returns
LoadConfigFails ==
    /\ pc = "load"
    /\ pc' = "stopped"
    /\ last' = Step("LoadConfigFails", "")
    /\ sent' = <<>>
    /\ sends' = 0
    /\ UNCHANGED <<inputs, state, published, config, persisted, saves, current_url,
                   want_paused, waiting, running, internal_q, last_server,
                   dir, fav, mpv>>

\* mpv_socket_path, MpvProcess::spawn, RadioBrowserClient::new (lines 125-131)
StartLoop ==
    /\ pc = "socket"
    /\ pc' = "loop"
    /\ last_server' = config.last_server
    /\ last' = Step("StartLoop", "")
    /\ sent' = <<>>
    /\ sends' = 0
    /\ mpv' = Spawned
    /\ UNCHANGED <<inputs, state, published, config, persisted, saves, current_url,
                   want_paused, waiting, running, internal_q, dir, fav>>

\* mpv_socket_path or RadioBrowserClient::new fails: `?` returns
StartLoopFails ==
    /\ pc = "socket"
    /\ pc' = "stopped"
    /\ last' = Step("StartLoopFails", "")
    /\ sent' = <<>>
    /\ sends' = 0
    /\ mpv' \in {mpv, Spawned}
    /\ UNCHANGED <<inputs, state, published, config, persisted, saves, current_url,
                   want_paused, waiting, running, internal_q, last_server,
                   dir, fav>>

\* UiCommand::Search(q)
Search(q) ==
    /\ pc = "loop"
    /\ RecvCmd(UiSearch(q))
    /\ inputs' = [inputs EXCEPT !.cmds = @ + 1]
    /\ InFlight < MaxTasks
    /\ state' = [state EXCEPT !.search_query = q, !.search_loading = TRUE,
                              !.error = None]
    /\ published' = state'
    /\ waiting' = Append(waiting, SearchTask(q))
    /\ last' = Step("Search", q)
    /\ sent' = <<>>
    /\ sends' = 1
    /\ mpv' = CmdTaken(sent')
    /\ UNCHANGED <<pc, config, persisted, saves, current_url, want_paused,
                   running, internal_q, last_server, dir, fav>>

\* UiCommand::Play(station)
Play(station) ==
    /\ pc = "loop"
    /\ RecvCmd(UiPlay(station))
    /\ inputs' = [inputs EXCEPT !.cmds = @ + 1]
    /\ InFlight < MaxTasks
    /\ state' = [state EXCEPT !.error = None, !.media_title = None,
                              !.station = Some(station), !.phase = "Idle"]
    /\ want_paused' = FALSE
    /\ published' = state'
    /\ sent' = <<SetTitle(station.name)>>
    /\ waiting' = Append(waiting, ResolveTask(station))
    /\ last' = Step("Play", station)
    /\ sends' = 1
    /\ mpv' = CmdTaken(sent')
    /\ UNCHANGED <<pc, config, persisted, saves, current_url, running,
                   internal_q, last_server, dir, fav>>

\* UiCommand::TogglePause
TogglePause ==
    /\ pc = "loop"
    /\ RecvCmd(UiTogglePause)
    /\ inputs' = [inputs EXCEPT !.cmds = @ + 1]
    /\ state' = [state EXCEPT !.error = None]
    /\ sent' = <<CmdTogglePause>>
    /\ last' = Step("TogglePause", "")
    /\ sends' = 0
    /\ mpv' = CmdTaken(sent')
    /\ UNCHANGED <<pc, published, config, persisted, saves, current_url,
                   want_paused, waiting, running, internal_q, last_server,
                   dir, fav>>

StopKeepsStation(st) == [st EXCEPT !.error = None, !.media_title = None,
                                   !.phase = "NotConfigured"]

\* the ControllerState a Stop leaves (lines 177, 185-187)
StopState(st) == [st EXCEPT !.error = None, !.station = None,
                            !.media_title = None, !.phase = "NotConfigured"]

\* UiCommand::Stop
Stop ==
    /\ pc = "loop"
    /\ RecvCmd(UiStop)
    /\ inputs' = [inputs EXCEPT !.cmds = @ + 1]
    /\ CanSave([config EXCEPT !.last_station = None])
    /\ sent' = <<CmdStop, SetTitle("")>>
    /\ current_url' = None
    /\ want_paused' = FALSE
    /\ state' = StopState(state)
    /\ published' = state'
    /\ config' = [config EXCEPT !.last_station = None]
    /\ saves' = saves \cup {config'}
    /\ last' = Step("Stop", "")
    /\ sends' = 1
    /\ mpv' = CmdTaken(sent')
    /\ UNCHANGED <<pc, persisted, waiting, running, internal_q, last_server,
                   dir, fav>>

\* UiCommand::ToggleFavorite(station)
ToggleFavorite(station) ==
    /\ pc = "loop"
    /\ RecvCmd(UiToggleFavorite(station))
    /\ inputs' = [inputs EXCEPT !.cmds = @ + 1]
    /\ CanSave([config EXCEPT !.favorites = toggle_favorite(@, station)])
    /\ config' = [config EXCEPT !.favorites = toggle_favorite(@, station)]
    /\ state' = [state EXCEPT !.favorites = config'.favorites]
    /\ published' = state'
    /\ saves' = saves \cup {config'}
    /\ last' = Step("ToggleFavorite", station)
    /\ sent' = <<>>
    /\ sends' = 1
    /\ mpv' = CmdTaken(sent')
    /\ UNCHANGED <<pc, persisted, current_url, want_paused, waiting, running,
                   internal_q, last_server, dir, fav>>

\* UiCommand::Shutdown
Shutdown ==
    /\ pc = "loop"
    /\ RecvCmd(UiShutdown)
    /\ inputs' = [inputs EXCEPT !.cmds = @ + 1]
    /\ sent' = <<CmdShutdown>>
    /\ pc' = "stopped"
    /\ last' = Step("Shutdown", "")
    /\ sends' = 0
    /\ mpv' = CmdTaken(sent')
    /\ UNCHANGED <<state, published, config, persisted, saves, current_url,
                   want_paused, waiting, running, internal_q, last_server,
                   dir, fav>>

PhaseOfPlaying(paused) == "Playing"

\* if want_paused { Paused } else { Playing }
PhaseOf(paused) == IF paused THEN "Paused" ELSE "Playing"

\* MpvEvent::Ready
MpvReady ==
    /\ pc = "loop"
    /\ RecvEvent(EvtReady)
    /\ inputs' = [inputs EXCEPT !.events = @ + 1]
    /\ IF IsSome(current_url)
       THEN /\ sent' = <<LoadUrl(Unwrap(current_url)), SetPause(want_paused)>>
            /\ state' = [state EXCEPT !.phase = PhaseOf(want_paused),
                                      !.error = None]
            /\ published' = state'
            /\ sends' = 1
       ELSE /\ sent' = <<>>
            /\ sends' = 0
            /\ UNCHANGED <<state, published>>
    /\ last' = Step("Ready", "")
    /\ mpv' = EventTaken(sent')
    /\ UNCHANGED <<pc, config, persisted, saves, current_url, want_paused,
                   waiting, running, internal_q, last_server, dir, fav>>

\* MpvEvent::MediaTitle(t)
MpvMediaTitle(t) ==
    /\ pc = "loop"
    /\ RecvEvent(EvtMediaTitle(t))
    /\ inputs' = [inputs EXCEPT !.events = @ + 1]
    /\ state' = [state EXCEPT !.media_title = t]
    /\ published' = state'
    /\ last' = Step("MediaTitle", t)
    /\ sent' = <<>>
    /\ sends' = 1
    /\ mpv' = EventTaken(sent')
    /\ UNCHANGED <<pc, config, persisted, saves, current_url, want_paused,
                   waiting, running, internal_q, last_server, dir, fav>>

\* MpvEvent::Pause(p)
MpvPause(p) ==
    /\ pc = "loop"
    /\ RecvEvent(EvtPause(p))
    /\ inputs' = [inputs EXCEPT !.events = @ + 1]
    /\ want_paused' = p
    /\ state' = [state EXCEPT !.phase = PhaseOf(p)]
    /\ published' = state'
    /\ last' = Step("Pause", p)
    /\ sent' = <<>>
    /\ sends' = 1
    /\ mpv' = EventTaken(sent')
    /\ UNCHANGED <<pc, config, persisted, saves, current_url, waiting,
                   running, internal_q, last_server, dir, fav>>

\* format!("mpv error: {e}")
MpvErrorText(e) ==
    [msg |-> "mpv error", action |-> "", attempt |-> 0, detail |-> e]

\* MpvEvent::Crashed(e), up to the sleep of 250 ms
MpvCrashed(e) ==
    /\ pc = "loop"
    /\ RecvEvent(EvtCrashed(e))
    /\ inputs' = [inputs EXCEPT !.events = @ + 1]
    /\ state' = [state EXCEPT !.phase = "Error",
                              !.error = Some(MpvErrorText(e))]
    /\ published' = state'
    /\ pc' = "crash_sleep"
    /\ last' = Step("Crashed", e)
    /\ sent' = <<>>
    /\ sends' = 1
    /\ mpv' = EventTaken(sent')
    /\ UNCHANGED <<config, persisted, saves, current_url, want_paused,
                   waiting, running, internal_q, last_server, dir, fav>>

\* the sleep of the Crashed handler ends; the loop selects again
CrashSleepDone ==
    /\ pc = "crash_sleep"
    /\ pc' = "loop"
    /\ last' = Step("CrashSleepDone", "")
    /\ sent' = <<>>
    /\ sends' = 0
    /\ UNCHANGED <<inputs, state, published, config, persisted, saves, current_url,
                   want_paused, waiting, running, internal_q, last_server,
                   dir, fav, mpv>>

SearchNeverStale(msg, st) == FALSE

\* query != state.search_query
SearchStale(msg, st) == msg.query # st.search_query

\* InternalMsg::SearchDone { query, res }
RecvSearchDone ==
    /\ pc = "loop"
    /\ internal_q # <<>>
    /\ Head(internal_q).kind = "SearchDone"
    /\ LET msg == Head(internal_q)
       IN  /\ IF SearchStale(msg, state)
              THEN /\ sends' = 0
                   /\ UNCHANGED <<state, published>>
              ELSE /\ state' = IF msg.res.ok
                               THEN [state EXCEPT
                                        !.search_results = msg.res.val,
                                        !.search_loading = FALSE,
                                        !.error = None]
                               ELSE [state EXCEPT
                                        !.search_loading = FALSE,
                                        !.error = Some(ToString(msg.res.val))]
                   /\ published' = state'
                   /\ sends' = 1
           /\ last' = Step("SearchDone", msg)
    /\ internal_q' = Tail(internal_q)
    /\ sent' = <<>>
    /\ mpv' = Sent(sent')
    /\ UNCHANGED <<inputs, pc, config, persisted, saves, current_url, want_paused,
                   waiting, running, last_server, dir, fav>>

ResolveNeverStale(msg, st) == FALSE

ResolveStaleWhenOther(msg, st) ==
    /\ IsSome(st.station)
    /\ Unwrap(st.station).stationuuid # msg.station.stationuuid

\* state.station.as_ref().map(|s| &s.stationuuid) != Some(&station.stationuuid)
ResolveStale(msg, st) ==
    \/ st.station = None
    \/ Unwrap(st.station).stationuuid # msg.station.stationuuid

\* if let Some(s) = rb.lock().await.last_server() { config.last_server = Some(s) }
WithLastServer(cfg, ls) ==
    IF IsSome(ls) THEN [cfg EXCEPT !.last_server = ls] ELSE cfg

\* InternalMsg::ResolveDone { station, res }: the whole handler when the
\* client's lock is free, and up to rb.lock().await when a lookup holds it
RecvResolveDone ==
    /\ pc = "loop"
    /\ internal_q # <<>>
    /\ Head(internal_q).kind = "ResolveDone"
    /\ LET msg == Head(internal_q)
       IN  /\ last' = Step("ResolveDone", msg)
           /\ CASE ResolveStale(msg, state) ->
                     /\ sent' = <<>>
                     /\ sends' = 0
                     /\ UNCHANGED <<pc, state, published, config, saves,
                                    current_url>>
                [] ~ResolveStale(msg, state) /\ msg.res.ok ->
                     /\ current_url' = Some(msg.res.val)
                     /\ sent' = <<LoadUrl(msg.res.val)>>
                     /\ state' = [state EXCEPT !.phase = "Playing",
                                               !.error = None]
                     /\ published' = state'
                     /\ sends' = 1
                     /\ IF running = None
                        THEN /\ CanSave(WithLastServer(
                                    [config EXCEPT !.last_station = Some(msg.station)],
                                    last_server))
                             /\ config' = WithLastServer(
                                    [config EXCEPT !.last_station = Some(msg.station)],
                                    last_server)
                             /\ saves' = saves \cup {config'}
                             /\ UNCHANGED pc
                        ELSE /\ config' = [config EXCEPT
                                              !.last_station = Some(msg.station)]
                             /\ pc' = "await_rb"
                             /\ UNCHANGED saves
                [] OTHER ->
                     /\ state' = [state EXCEPT
                                     !.phase = "Error",
                                     !.error = Some(ToString(msg.res.val))]
                     /\ published' = state'
                     /\ sent' = <<>>
                     /\ sends' = 1
                     /\ UNCHANGED <<pc, config, saves, current_url>>
    /\ internal_q' = Tail(internal_q)
    /\ mpv' = Sent(sent')
    /\ UNCHANGED <<inputs, persisted, want_paused, waiting, running, last_server,
                   dir, fav>>

\* the ResolveDone handler past rb.lock().await: read last_server, save
ResolveDoneLocked ==
    /\ pc = "await_rb"
    /\ running = None
    /\ CanSave(WithLastServer(config, last_server))
    /\ config' = WithLastServer(config, last_server)
    /\ saves' = saves \cup {config'}
    /\ pc' = "loop"
    /\ last' = Step("ResolveDoneLocked", "")
    /\ sent' = <<>>
    /\ sends' = 0
    /\ UNCHANGED <<inputs, state, published, persisted, current_url,
                   want_paused, waiting, running, internal_q, last_server,
                   dir, fav, mpv>>

\* ---------------------------------------------------------- spawned tasks

\* a spawned lookup task gets the client's lock: rb.lock().await
TaskLock(i) ==
    /\ pc \in {"loop", "crash_sleep", "await_rb"}
    /\ running = None
    /\ i \in 1..Len(waiting)
    /\ running' = Some(waiting[i])
    /\ waiting' = RemoveAt(waiting, i)
    /\ last' = Step("TaskLock", "")
    /\ sent' = <<>>
    /\ sends' = 0
    /\ UNCHANGED <<inputs, pc, state, published, config, persisted, saves,
                   current_url, want_paused, internal_q, last_server, dir, fav, mpv>>

TaskArg(t) == IF t.kind = "search" THEN t.query ELSE Unwrap(t.station).stationuuid

DoneMsgNoQuery(t, res) ==
    [kind |-> "SearchDone", query |-> "", station |-> None, res |-> res]

\* InternalMsg::SearchDone { query: q, res } / ResolveDone { station, res }
DoneMsg(t, res) ==
    IF t.kind = "search"
    THEN [kind |-> "SearchDone", query |-> t.query, station |-> None,
          res |-> res]
    ELSE [kind |-> "ResolveDone", query |-> "", station |-> Unwrap(t.station),
          res |-> res]

\* the lookup ends, the lock is released and the result is sent:
\* tx.send(InternalMsg::SearchDone / ResolveDone)
TaskDone ==
    /\ pc \in {"loop", "crash_sleep", "await_rb"}
    /\ running # None
    /\ \E o \in LookupOutcomes(Unwrap(running).kind, TaskArg(Unwrap(running)),
                               last_server) :
          /\ internal_q' = Append(internal_q, DoneMsg(Unwrap(running), o.res))
          /\ last_server' = IF IsSome(o.server) THEN o.server ELSE last_server
    /\ running' = None
    /\ last' = Step("TaskDone", "")
    /\ sent' = <<>>
    /\ sends' = 0
    /\ UNCHANGED <<inputs, pc, state, published, config, persisted, saves,
                   current_url, want_paused, waiting, dir, fav, mpv>>

\* a save task's save_atomic renames its file over the record
SaveDone(cfg) ==
    /\ cfg \in saves
    /\ persisted' = cfg
    /\ saves' = saves \ {cfg}
    /\ last' = Step("SaveDone", "")
    /\ sent' = <<>>
    /\ sends' = 0
    /\ UNCHANGED <<inputs, pc, state, published, config, current_url, want_paused,
                   waiting, running, internal_q, last_server, dir, fav, mpv>>

\* ------------------------------------------------------ run_mpv, io_loop

\* cmd_rx.is_closed(): controller_main has returned and dropped its MpvProcess
Closed == pc \in {"stopped", "exited"}

\* evt_tx.send(ev): ignored when the controller's receiver is gone
Emit(m, ev) == IF Closed THEN m ELSE [m EXCEPT !.evt_q = Append(@, ev)]

\* the Child goes out of scope: the process is not killed
DropChild(m) ==
    [m EXCEPT !.child = "none",
              !.orphans = IF m.child = "alive" THEN @ + 1 ELSE @]

\* a step of the supervisor, the player or the UI leaves the controller alone
SupStep(kind, arg) ==
    /\ last' = Step(kind, arg)
    /\ sent' = <<>>
    /\ sends' = 0
    /\ UNCHANGED <<pc, state, published, config, persisted, saves, current_url,
                   want_paused, waiting, running, internal_q, last_server,
                   inputs, dir, fav>>

\* if cmd_rx.is_closed() { return; }
SupClosed ==
    /\ mpv.pc = "start"
    /\ Closed
    /\ mpv' = [mpv EXCEPT !.pc = "done"]
    /\ SupStep("SupClosed", "")

SpawnFailedSilently(m, e) ==
    [m EXCEPT !.pc = "backoff", !.fails = @ + 1, !.slept = Append(@, m.backoff)]

\* the Err arm of run_mpv: send Crashed, then sleep(backoff)
SpawnFailed(m, e) ==
    [Emit(m, EvtCrashed(e)) EXCEPT
        !.pc = "backoff", !.fails = @ + 1, !.slept = Append(@, m.backoff)]

\* spawn_and_connect up to the connect loop: Command::new("mpv")...spawn()
SupSpawn(ok) ==
    /\ mpv.pc = "start"
    /\ ~Closed
    /\ mpv.spawns > 0
    /\ mpv' = IF ok
              THEN [mpv EXCEPT !.pc = "connecting", !.child = "alive",
                               !.spawns = @ - 1]
              ELSE SpawnFailed([mpv EXCEPT !.spawns = @ - 1],
                               "Failed to spawn mpv")
    /\ SupStep("SupSpawn", "")

\* UnixStream::connect succeeds: the Ok arm of run_mpv up to io_loop's select.
\* written is the number of observe_property requests send_observers wrote
\* before it returned; `let _ =` drops its result and Ready follows.
SupConnected(written) ==
    /\ mpv.pc = "connecting"
    /\ mpv.child = "alive"
    /\ mpv' = [Emit(mpv, EvtReady) EXCEPT
                 !.pc = "connected", !.backoff = backoff_start, !.fails = 0,
                 !.slept = <<>>, !.observers = written]
    /\ SupStep("SupConnected", "")

\* connect keeps failing for 3 s: child.kill().await, Err
SupConnectTimeout ==
    /\ mpv.pc = "connecting"
    /\ mpv' = SpawnFailed([mpv EXCEPT !.child = "none"],
                          "Timed out connecting to mpv IPC socket")
    /\ SupStep("SupConnectTimeout", "")

double_uncapped(backoff) == backoff * 2

\* std::cmp::min(backoff * 2, Duration::from_secs(5))
double_backoff(backoff) == Min(backoff * 2, backoff_max)

\* the sleep of line 71 ends
SupBackoffDone ==
    /\ mpv.pc = "backoff"
    /\ mpv' = [mpv EXCEPT !.pc = "start", !.backoff = double_backoff(@)]
    /\ SupStep("SupBackoffDone", "")

\* the player process exits on its own
PlayerExits ==
    /\ mpv.pc \in {"connecting", "connected"}
    /\ mpv.child = "alive"
    /\ mpv' = [mpv EXCEPT !.child = "exited"]
    /\ SupStep("PlayerExits", "")

SessionAbortedSilently(m, e) ==
    [DropChild(m) EXCEPT !.pc = "start", !.observers = 0]

\* io_loop returns Err(e): Crashed is sent, the Child is dropped and the loop
\* of run_mpv starts over without a sleep
SessionAborted(m, e) ==
    [DropChild(Emit(m, EvtCrashed(e))) EXCEPT !.pc = "start", !.observers = 0]

\* status = child.wait()
SupChildExit ==
    /\ mpv.pc = "connected"
    /\ mpv.child = "exited"
    /\ mpv' = SessionAborted(mpv, "mpv exited")
    /\ SupStep("SupChildExit", "")

\* maybe_line = reader.next_line(): a line.  next_line fails on bytes that
\* are no UTF-8 and the `?` ends the session.
SupLine(line) ==
    /\ mpv.pc = "connected"
    /\ mpv.lines > 0
    /\ LET m == [mpv EXCEPT !.lines = @ - 1]
       IN  mpv' = IF ~line.utf8 THEN SessionAborted(m, "mpv IPC read error")
                  ELSE IF parse_event(line).ok
                  THEN Emit(m, parse_event(line).val)
                  ELSE m
    /\ SupStep("SupLine", line)

\* maybe_line = reader.next_line(): Ok(None), the player closed the socket
SupReadEof ==
    /\ mpv.pc = "connected"
    /\ mpv' = SessionAborted(mpv, "mpv IPC closed")
    /\ SupStep("SupReadEof", "")

shutdown_leaves_child(child) == child

\* MpvCommand::Shutdown: let _ = child.kill().await
shutdown_kills(child) == "killed"

\* cmd = cmd_rx.recv(): a command.  wrote: write_all succeeded.  (recv gives
\* None only on a closed and empty channel: the controller sends Shutdown
\* before it returns, so a session never finds the channel so.)
SupCommand(wrote) ==
    /\ mpv.pc = "connected"
    /\ mpv.cmd_q # <<>>
    /\ LET cmd == Head(mpv.cmd_q)
           m == [mpv EXCEPT !.cmd_q = Tail(@)]
       IN  /\ mpv' = IF cmd = CmdShutdown
                     THEN [m EXCEPT !.pc = "done", !.shutdown = TRUE,
                                    !.child = shutdown_kills(@)]
                     ELSE IF wrote THEN m
                     ELSE SessionAborted([m EXCEPT !.lost = @ + 1],
                                         "Write mpv IPC request")
           /\ SupStep("SupCommand", cmd)

\* e.to_string() of the errors run_mpv reports
SupReasons ==
    {"Failed to spawn mpv", "Timed out connecting to mpv IPC socket",
     "mpv exited", "mpv IPC closed", "mpv IPC read error",
     "Write mpv IPC request"}

\* cmd_tx.send(c) by the UI; Shutdown is what dropping the ControllerHandle
\* sends, and nothing is sent after it
UiSend(c) ==
    /\ Supervised
    /\ pc # "exited"
    /\ ~mpv.ui_shutdown
    /\ mpv.ui_left > 0
    /\ mpv' = [mpv EXCEPT !.ui_q = IF pc = "stopped" THEN @ ELSE Append(@, c),
                          !.ui_left = @ - 1,
                          !.ui_shutdown = (c = UiShutdown)]
    /\ SupStep("UiSend", c)

\* controller_main has returned: block_on returns and the runtime is dropped
\* with the tasks still on it, then the controller thread ends.  A task is
\* dropped where it waits.
RuntimeDrop ==
    /\ pc = "stopped"
    /\ pc' = "exited"
    /\ mpv' = IF mpv.pc \in {"unmodelled", "unspawned", "done"} THEN mpv
              ELSE [DropChild(mpv) EXCEPT !.pc = "cancelled"]
    /\ waiting' = <<>>
    /\ running' = None
    /\ last' = Step("RuntimeDrop", "")
    /\ sent' = <<>>
    /\ sends' = 0
    /\ UNCHANGED <<state, published, config, persisted, saves, current_url,
                   want_paused, internal_q, last_server, inputs, dir, fav>>

\* The supervisor with the controller and the UI: the commands that need no
\* lookup.
InitMpv ==
    /\ InitCtl
    /\ persisted = DefaultConfig
    /\ last_server = None
    /\ dir = DirIdle
    /\ fav = FavIdle
    /\ mpv = [MpvIdle EXCEPT !.pc = "unspawned", !.spawns = MaxSessions,
                             !.lines = MaxLines, !.ui_left = MaxUi]

NextMpv ==
    \/ LoadConfig
    \/ LoadConfigFails
    \/ StartLoop
    \/ StartLoopFails
    \/ TogglePause
    \/ Stop
    \/ Shutdown
    \/ MpvReady
    \/ \E t \in {None} \cup {Some(x) : x \in Titles} : MpvMediaTitle(t)
    \/ \E e \in SupReasons : MpvCrashed(e)
    \/ CrashSleepDone
    \/ \E c \in {UiTogglePause, UiStop, UiShutdown} : UiSend(c)
    \/ SupClosed
    \/ \E ok \in BOOLEAN : SupSpawn(ok)
    \/ \E written \in 0..2 : SupConnected(written)
    \/ SupConnectTimeout
    \/ SupBackoffDone
    \/ PlayerExits
    \/ SupChildExit
    \/ \E line \in {JObject(JStr("property-change"), JStr("media-title"),
                             JStr("Song")),
                     JObject(JStr("end-file"), JAbsent, JAbsent),
                     NotJson, InvalidUtf8} : SupLine(line)
    \/ SupReadEof
    \/ \E wrote \in BOOLEAN : SupCommand(wrote)
    \/ RuntimeDrop

SpecMpv == InitMpv /\ [][NextMpv]_vars

\* The supervisor on its own through a run of failures, while the controller
\* takes no event.
InitBackoff ==
    /\ InitCtl
    /\ persisted = DefaultConfig
    /\ last_server = None
    /\ dir = DirIdle
    /\ fav = FavIdle
    /\ mpv = [MpvIdle EXCEPT !.pc = "unspawned", !.spawns = MaxSpawns]

NextBackoff ==
    \/ LoadConfig
    \/ StartLoop
    \/ \E ok \in BOOLEAN : SupSpawn(ok)
    \/ \E written \in 0..2 : SupConnected(written)
    \/ SupConnectTimeout
    \/ SupBackoffDone
    \/ PlayerExits
    \/ SupChildExit

SpecBackoff == InitBackoff /\ [][NextBackoff]_vars

\* Crash recovery: the supervisor with the controller and a UI that plays a
\* station, the player reporting its pause state.
InitCrash ==
    /\ InitCtl
    /\ persisted = DefaultConfig
    /\ last_server = None
    /\ dir = DirIdle
    /\ fav = FavIdle
    /\ mpv = [MpvIdle EXCEPT !.pc = "unspawned", !.spawns = MaxSessions,
                             !.lines = MaxLines, !.ui_left = MaxPlays]

NextCrash ==
    \/ LoadConfig
    \/ StartLoop
    \/ \E st \in StationRefs : Play(st)
    \/ \E i \in 1..MaxTasks : TaskLock(i)
    \/ TaskDone
    \/ RecvResolveDone
    \/ MpvReady
    \/ \E p \in BOOLEAN : MpvPause(p)
    \/ \E e \in SupReasons : MpvCrashed(e)
    \/ CrashSleepDone
    \/ UiSend(UiPlay(StationRef("u1", "Jazz")))
    \/ \E ok \in BOOLEAN : SupSpawn(ok)
    \/ \E written \in 0..2 : SupConnected(written)
    \/ SupConnectTimeout
    \/ SupBackoffDone
    \/ PlayerExits
    \/ SupChildExit
    \/ \E p \in BOOLEAN :
          SupLine(JObject(JStr("property-change"), JStr("pause"), JBool(p)))
    \/ SupReadEof
    \/ \E wrote \in BOOLEAN : SupCommand(wrote)

SpecCrash == InitCrash /\ [][NextCrash]_vars

\* The events of the supervisor: the controller starts it and takes no event,
\* so that mpv.evt_q lists every event sent while controller_main runs; the
\* UI drops its handle at any time.
NextEvents ==
    \/ LoadConfig
    \/ StartLoop
    \/ UiSend(UiShutdown)
    \/ Shutdown
    \/ SupClosed
    \/ \E ok \in BOOLEAN : SupSpawn(ok)
    \/ \E written \in 0..2 : SupConnected(written)
    \/ SupConnectTimeout
    \/ SupBackoffDone
    \/ PlayerExits
    \/ SupChildExit
    \/ \E line \in {JObject(JStr("property-change"), JStr("media-title"),
                             JStr("Song")),
                     JObject(JStr("property-change"), JStr("pause"),
                             JBool(TRUE)),
                     NotJson, InvalidUtf8} : SupLine(line)
    \/ SupReadEof
    \/ \E wrote \in BOOLEAN : SupCommand(wrote)
    \/ RuntimeDrop

SpecEvents == InitMpv /\ [][NextEvents]_vars

\* Searches: the UI sends Search commands and at last Shutdown, the spawned
\* lookups take the client's lock in any order.  The runtime runs every
\* spawned task and the loop polls its channels: a lookup that can take the
\* lock takes it, a lookup ends, and a command or result waiting in a channel
\* is received.
InitSearch ==
    /\ InitCtl
    /\ persisted = DefaultConfig
    /\ last_server = None
    /\ dir = DirIdle
    /\ fav = FavIdle
    /\ mpv = [MpvIdle EXCEPT !.pc = "unspawned", !.ui_left = MaxSearches]

NextSearch ==
    \/ LoadConfig
    \/ StartLoop
    \/ \E c \in {UiSearch("jazz"), UiSearch("news"), UiShutdown} : UiSend(c)
    \/ \E q \in {"jazz", "news"} : Search(q)
    \/ Shutdown
    \/ \E i \in 1..MaxTasks : TaskLock(i)
    \/ TaskDone
    \/ RecvSearchDone

SpecSearch ==
    /\ InitSearch
    /\ [][NextSearch]_vars
    /\ WF_vars(\E q \in {"jazz", "news"} : Search(q))
    /\ WF_vars(\E i \in 1..MaxTasks : TaskLock(i))
    /\ WF_vars(TaskDone)
    /\ WF_vars(RecvSearchDone)

\* ------------------------------------------- RadioBrowserClient, by steps
\* dir.pc: idle, discover (inside discover_servers), attempt (inside the
\* closure of attempt number dir.attempt), sleep (inside the backoff sleep),
\* done (the call has returned dir.result).
\* dir.log lists the attempts made, each with its mirror and whether the
\* closure returned Ok; dir.last_res is what the latest closure returned;
\* dir.sleeps lists the backoff sleeps; dir.last0 is last_server as the call
\* found it.

DirArgs(action) == IF action = "search" THEN {"jazz", " ", ""} ELSE {"u1", " "}

query_never_empty(query) == FALSE

\* search: let query = query.trim(); query.is_empty()
query_is_empty(query) == Trim(query) = ""

\* search(query, limit) / resolve_station_url(stationuuid) is called
DirCall(action, arg) ==
    /\ dir.pc \in {"idle", "done"}
    /\ LET blank == IF action = "search" THEN query_is_empty(arg)
                    ELSE Trim(arg) = ""
       IN  dir' = [DirIdle EXCEPT
                    !.action = action, !.arg = arg, !.last0 = last_server,
                    !.pc = IF blank THEN "done" ELSE "discover",
                    !.result = IF ~blank THEN None
                               ELSE IF action = "search" THEN Some(Ok(<<>>))
                               ELSE Some(Err(AnyErr("Missing station UUID")))]
    /\ UNCHANGED <<ctl_vars, last_server, fav>>

\* with_server_retry lines 134-140: discover_servers()?, shuffle, sticky swap
DirDiscover(resp) ==
    /\ dir.pc = "discover"
    /\ LET d == discover_servers(resp)
       IN  IF ~d.ok
           THEN dir' = [dir EXCEPT !.pc = "done", !.result = Some(d)]
           ELSE \E shuffled \in Shuffles(d.val) :
                   dir' = [dir EXCEPT !.pc = "attempt", !.discovered = TRUE,
                                      !.servers = StickyFirst(shuffled, last_server)]
    /\ UNCHANGED <<ctl_vars, last_server, fav>>

\* one pass of the for loop up to the sleep: f(base).await
DirAttempt(resp) ==
    /\ dir.pc = "attempt"
    /\ LET server == ServerFor(dir.servers, dir.attempt)
           r == RunAction(dir.action, resp)
       IN  /\ IF r.ok
              THEN /\ last_server' = Some(server)
                   /\ dir' = [dir EXCEPT
                                !.pc = "done", !.result = Some(r),
                                !.last_res = Some(r),
                                !.log = Append(@, [server |-> server, ok |-> TRUE])]
              ELSE /\ UNCHANGED last_server
                   /\ dir' = [dir EXCEPT
                                !.pc = "sleep",
                                !.last_err = Some(AttemptContext(r.val, dir.action,
                                                                 dir.attempt)),
                                !.last_res = Some(r),
                                !.log = Append(@, [server |-> server, ok |-> FALSE])]
    /\ UNCHANGED <<ctl_vars, fav>>

LoopEndsLate(attempt) == attempt = max_attempts + 1

\* for attempt in 0..max_attempts: the loop ends after max_attempts passes
LoopEnds(attempt) == attempt = max_attempts

\* tokio::time::sleep(backoff_ms) returns; the next pass, or the loop's end:
\* Err(last_err)
DirSleep ==
    /\ dir.pc = "sleep"
    /\ dir' = IF LoopEnds(dir.attempt + 1)
              THEN [dir EXCEPT !.sleeps = Append(@, backoff_ms(dir.attempt)),
                               !.attempt = @ + 1,
                               !.pc = "done",
                               !.result = Some(Err(Unwrap(dir.last_err)))]
              ELSE [dir EXCEPT !.sleeps = Append(@, backoff_ms(dir.attempt)),
                               !.attempt = @ + 1,
                               !.pc = "attempt"]
    /\ UNCHANGED <<ctl_vars, last_server, fav>>

InitDir ==
    /\ InitCtl
    /\ persisted = DefaultConfig
    /\ last_server \in {None} \cup {Some(m) : m \in Mirrors}
    /\ dir = DirIdle
    /\ fav = FavIdle
    /\ mpv = MpvIdle

NextDir ==
    \/ \E action \in {"search", "resolve"} : \E arg \in DirArgs(action) : DirCall(action, arg)
    \/ \E resp \in DiscoverResponsesOf(Mirrors, MaxServerList) : DirDiscover(resp)
    \/ \E resp \in Responses(dir.action) : DirAttempt(resp)
    \/ DirSleep

SpecDir == InitDir /\ [][NextDir]_vars

\* ------------------------------------------- toggle_favorite on its own
\* fav.favs is AppConfig.favorites.  fav.toggles counts the toggles of the
\* current run of toggles of one id (1 or 2); fav.before is the list that run
\* started from, fav.first and fav.second are the stations of its toggles.

FavRefs ==
    {StationRef(id, n) : id \in {"u1", "u2", "u3"}, n \in {"Jazz", "Jazz FM"}}

\* config.toggle_favorite(station)
FavToggle(station) ==
    /\ fav' = IF fav.toggles = 1
                 /\ Unwrap(fav.first).stationuuid = station.stationuuid
              THEN [fav EXCEPT !.favs = toggle_favorite(@, station),
                               !.second = Some(station),
                               !.toggles = 2]
              ELSE [favs |-> toggle_favorite(fav.favs, station),
                    before |-> fav.favs,
                    first |-> Some(station),
                    second |-> None,
                    toggles |-> 1]
    /\ UNCHANGED <<ctl_vars, last_server, dir>>

InitFav ==
    /\ InitCtl
    /\ persisted = DefaultConfig
    /\ last_server = None
    /\ dir = DirIdle
    /\ mpv = MpvIdle
    /\ \E l \in SeqsUpTo(FavRefs, MaxFavLen) :
          /\ NoDupIds(l)
          /\ fav = [FavIdle EXCEPT !.favs = l, !.before = l]

NextFav == \E station \in FavRefs : FavToggle(station)

SpecFav == InitFav /\ [][NextFav]_vars

\* ------------------------------------------------ parse_event on its own

\* parse_event(&line) on a line of Lines; mpv.parsed is what it returned
ParseLine(line) ==
    /\ mpv' = [mpv EXCEPT !.parsed = Some(parse_event(line))]
    /\ last' = Step("parse_event", line)
    /\ UNCHANGED <<pc, state, published, config, persisted, saves, current_url,
                   want_paused, waiting, running, internal_q, last_server,
                   sent, sends, inputs, dir, fav>>

InitParse ==
    /\ InitCtl
    /\ persisted = DefaultConfig
    /\ last_server = None
    /\ dir = DirIdle
    /\ fav = FavIdle
    /\ mpv = MpvIdle

NextParse == \E line \in Lines : ParseLine(line)

SpecParse == InitParse /\ [][NextParse]_vars

Next ==
    \/ LoadConfig
    \/ LoadConfigFails
    \/ StartLoop
    \/ StartLoopFails
    \/ \E q \in {"jazz", "news"} : Search(q)
    \/ \E st \in StationRefs : Play(st)
    \/ TogglePause
    \/ Stop
    \/ \E st \in StationRefs : ToggleFavorite(st)
    \/ Shutdown
    \/ MpvReady
    \/ \E t \in {None} \cup {Some(x) : x \in Titles} : MpvMediaTitle(t)
    \/ \E p \in BOOLEAN : MpvPause(p)
    \/ \E e \in {"mpv IPC closed"} : MpvCrashed(e)
    \/ CrashSleepDone
    \/ RecvSearchDone
    \/ RecvResolveDone
    \/ ResolveDoneLocked
    \/ \E i \in 1..MaxTasks : TaskLock(i)
    \/ TaskDone
    \/ \E cfg \in saves : SaveDone(cfg)

Spec == Init /\ [][Next]_vars

\* ------------------------------------------------------------ properties

StationId(st) == IF st.station = None THEN "" ELSE Unwrap(st.station).stationuuid

\* C1: a SearchDone whose query differs from the current search_query is
\* discarded: the step that receives it changes no field of the state,
\* publishes no snapshot, enqueues no player command and touches neither the
\* config nor the desired URL.
C1_StaleSearchDiscarded ==
    [][(last'.kind = "SearchDone" /\ last'.arg.query # state.search_query)
        => /\ state' = state
           /\ published' = published
           /\ sends' = 0
           /\ sent' = <<>>
           /\ config' = config
           /\ saves' = saves
           /\ current_url' = current_url
           /\ want_paused' = want_paused]_vars

\* a successful search result for a superseded query has just been dropped
\* while the live query is still loading
C1_Witness ==
    /\ last.kind = "SearchDone"
    /\ last.arg.query # state.search_query
    /\ last.arg.res.ok
    /\ state.search_loading
    /\ state.search_results = <<>>

\* C2: a ResolveDone whose station id is not the id of the selected station
\* (another station selected, or none after Stop) is discarded: no LoadUrl or
\* other player command, no phase or state change, no snapshot, no change of
\* the desired URL, no change of the config's last station and no save.
C2_StaleResolveDiscarded ==
    [][(last'.kind = "ResolveDone"
        /\ StationId(state) # last'.arg.station.stationuuid)
        => /\ sent' = <<>>
           /\ state' = state
           /\ published' = published
           /\ sends' = 0
           /\ current_url' = current_url
           /\ config' = config
           /\ saves' = saves
           /\ pc' = pc]_vars

\* a successful resolution of a station has just been dropped because the
\* user had selected another station meanwhile
C2_Witness ==
    /\ last.kind = "ResolveDone"
    /\ last.arg.res.ok
    /\ IsSome(state.station)
    /\ StationId(state) # last.arg.station.stationuuid
    /\ current_url = None

\* C3: right after a Stop command is processed, station and mediaTitle are
\* None, the phase is NotConfigured, the desired URL and the config's last
\* station are unset, Stop was enqueued to the supervisor, the snapshot was
\* published and a save of that config is running.
C3_StopClears ==
    last.kind = "Stop" =>
        /\ state.station = None
        /\ state.media_title = None
        /\ state.phase = "NotConfigured"
        /\ current_url = None
        /\ config.last_station = None
        /\ sent # <<>> /\ sent[1] = CmdStop
        /\ sends = 1
        /\ published = state
        /\ config \in saves

\* Stop has just been processed while a resolution result was waiting in the
\* internal channel
C3_Witness ==
    /\ last.kind = "Stop"
    /\ internal_q # <<>>
    /\ Head(internal_q).kind = "ResolveDone"
    /\ Head(internal_q).res.ok

\* C4: once every save task started so far has finished, the persisted
\* record equals the controller's in-memory config.
C4_PersistedIsLatest ==
    (pc \in {"socket", "loop", "crash_sleep"} /\ saves = {})
        => persisted = config

\* C5 as stated: two toggles of one id in a row leave the list as it was.
C5_ToggleTwiceSameList ==
    fav.toggles = 2 => fav.favs = fav.before

\* C5, amended: after two toggles of one id in a row the list is as before
\* when the id was not a favourite; when it was, its entry is gone from its
\* place and the station of the second toggle sits at the end; either way
\* the same ids are favourites.
C5_ToggleTwice ==
    fav.toggles = 2 =>
        LET id == Unwrap(fav.first).stationuuid
            pos == IdPosition(fav.before, id)
        IN  /\ pos = 0 => fav.favs = fav.before
            /\ pos # 0 => fav.favs = Append(RemoveAt(fav.before, pos),
                                            Unwrap(fav.second))
            /\ {fav.favs[i].stationuuid : i \in 1..Len(fav.favs)}
                 = {fav.before[i].stationuuid : i \in 1..Len(fav.before)}

\* a favourite that was not last has been toggled twice and has moved
C5_Witness ==
    /\ fav.toggles = 2
    /\ IdPosition(fav.before, Unwrap(fav.first).stationuuid) = 1
    /\ Len(fav.before) = 2
    /\ fav.favs # fav.before

C7_StationOnlyWhenConfigured ==
    /\ state.phase = "NotConfigured" => state.station = None
    /\ IsSome(state.station) => state.phase \in {"Idle", "Playing", "Paused", "Error"}
    /\ published.phase = "NotConfigured" => published.station = None

\* the phase is NotConfigured again after a station had been selected
C7_Witness ==
    /\ state.phase = "NotConfigured"
    /\ inputs.cmds = 2
    /\ waiting # <<>>
    /\ waiting[1].kind = "resolve"

\* C8: a lookup that succeeds after k < 4 failed attempts returns that
\* attempt's value and records that attempt's mirror as last used; and a
\* lookup that finds a last used mirror in the discovered pool attempts it
\* first, whatever the shuffle.
C8_FailoverSticky ==
    /\ (dir.pc = "done" /\ dir.log # <<>> /\ dir.log[Len(dir.log)].ok)
        => /\ Len(dir.log) <= max_attempts
           /\ \A i \in 1..(Len(dir.log) - 1) : ~dir.log[i].ok
           /\ dir.result = dir.last_res
           /\ Unwrap(dir.result).ok
           /\ last_server = Some(dir.log[Len(dir.log)].server)
    /\ (dir.log # <<>> /\ IsSome(dir.last0)
        /\ Unwrap(dir.last0) \in Range(dir.servers))
        => dir.log[1].server = Unwrap(dir.last0)

\* in a pool of four mirrors the preferred mirror and two more failed, the
\* fourth succeeded and is now the last used one
C8_Witness ==
    /\ dir.pc = "done"
    /\ Len(dir.servers) = 4
    /\ Len(dir.log) = 4
    /\ dir.log[4].ok
    /\ IsSome(dir.last0)
    /\ dir.log[1].server = Unwrap(dir.last0)
    /\ last_server = Some(dir.log[4].server)
    /\ last_server # dir.last0

\* C9: a lookup makes at most 4 attempts, attempt i on mirror (i mod pool
\* size) of the ordered pool; when all 4 fail it returns the last attempt's
\* error wrapped with attempt number 3 and the last used mirror is as the
\* call found it; when discovery fails there is no attempt and the last used
\* mirror is as the call found it.
C9_BoundedAttempts ==
    /\ Len(dir.log) <= max_attempts
    /\ \A i \in 1..Len(dir.log) :
          dir.log[i].server = dir.servers[((i - 1) % Len(dir.servers)) + 1]
    /\ (dir.pc = "done" /\ dir.discovered /\ ~Unwrap(dir.result).ok)
        => /\ Len(dir.log) = max_attempts
           /\ \A i \in 1..Len(dir.log) : ~dir.log[i].ok
           /\ Unwrap(dir.result).val.msg = "attempt failed"
           /\ Unwrap(dir.result).val.action = dir.action
           /\ Unwrap(dir.result).val.attempt = max_attempts - 1
           /\ Unwrap(dir.result).val.cause = Unwrap(dir.last_res).val.msg
           /\ last_server = dir.last0
    /\ (dir.pc = "done" /\ ~dir.discovered)
        => /\ dir.log = <<>>
           /\ ~Unwrap(dir.result).ok \/ Trim(dir.arg) = ""
           /\ last_server = dir.last0

\* all four attempts on a pool of three mirrors failed: the fourth attempt
\* went to the first mirror again
C9_Witness ==
    /\ dir.pc = "done"
    /\ Len(dir.servers) = 3
    /\ Len(dir.log) = 4
    /\ ~Unwrap(dir.result).ok
    /\ dir.log[4].server = dir.servers[1]
    /\ IsSome(last_server)

HttpOnly(u) == SchemeOf(u) \in {"http", "https"}

\* C10: every answer of a mirror that resolve_station_url accepts carries an
\* http or https URL, so every resolved URL in the internal channel, the
\* desired URL and every LoadUrl the controller enqueues is http or https.
C10_OnlyHttpUrls ==
    /\ \A resp \in ResolveResponses :
          resolve_action(resp).ok => HttpOnly(resolve_action(resp).val)
    /\ \A i \in 1..Len(internal_q) :
          (internal_q[i].kind = "ResolveDone" /\ internal_q[i].res.ok)
            => HttpOnly(internal_q[i].res.val)
    /\ IsSome(current_url) => HttpOnly(Unwrap(current_url))
    /\ \A i \in 1..Len(sent) :
          sent[i].cmd = "LoadUrl" => HttpOnly(sent[i].arg)

\* the player came back and the controller has just replayed an https URL
C10_Witness ==
    /\ last.kind = "Ready"
    /\ sent # <<>>
    /\ sent[1] = LoadUrl("https://h/s")

\* C11: a search with an empty or whitespace-only query has returned an empty
\* list as soon as it is called: no mirror discovery, no attempt, no backoff
\* sleep, and the remembered mirror is the one the call found.
C11_BlankSearchNoNetwork ==
    (dir.action = "search" /\ dir.arg \in {"", " "})
        => /\ dir.pc = "done"
           /\ dir.result = Some(Ok(<<>>))
           /\ ~dir.discovered
           /\ dir.log = <<>>
           /\ dir.sleeps = <<>>
           /\ last_server = dir.last0

\* a whitespace-only search made by a client that remembers a mirror
C11_Witness ==
    /\ dir.action = "search"
    /\ dir.arg = " "
    /\ dir.pc = "done"
    /\ IsSome(last_server)

\* C12: a JSON object with event property-change and name media-title parses
\* to MediaTitle(Some(s)) when its data is the string s and to
\* MediaTitle(None) otherwise; with name pause and a boolean b as data it
\* parses to Pause(b); an object with another event or another property
\* name, and a line that is no JSON, parse to no event.
C12_ParseEvent ==
    last.kind = "parse_event" =>
        LET line == last.arg
            r == Unwrap(mpv.parsed)
            change == line.json /\ line.event = JStr("property-change")
        IN  /\ (change /\ line.name = JStr("media-title"))
                => r = Ok(EvtMediaTitle(IF line.data.t = "string"
                                        THEN Some(line.data.s) ELSE None))
            /\ (change /\ line.name = JStr("pause") /\ line.data.t = "bool")
                => r = Ok(EvtPause(line.data.b))
            /\ (~change \/ line.name \notin {JStr("media-title"), JStr("pause")})
                => ~r.ok

\* a media-title change whose data is a number has been parsed
C12_Witness ==
    /\ last.kind = "parse_event"
    /\ last.arg = JObject(JStr("property-change"), JStr("media-title"), JNum)
    /\ mpv.parsed = Some(Ok(EvtMediaTitle(None)))

\* C13: a line of an established session that is unrecognized or malformed
\* is not fatal: reading it emits no event and leaves the supervisor in the
\* session with the same child process.
C13_BadLineNotFatal ==
    [][(last'.kind = "SupLine"
         /\ (~last'.arg.utf8 \/ ~parse_event(last'.arg).ok))
        => /\ mpv'.evt_q = mpv.evt_q
           /\ mpv'.pc = "connected"
           /\ mpv'.child = mpv.child]_vars

\* C14: when the supervisor sees the player process exit in a session it
\* sends Crashed and goes back to the top of its loop; a connect that
\* succeeds sends Ready and takes no command from the queue; and the
\* controller's handler of Ready with a desired URL enqueues LoadUrl for that
\* URL first.
C14_CrashRecovery ==
    [][/\ last'.kind = "SupChildExit"
            => /\ mpv'.evt_q = Append(mpv.evt_q, EvtCrashed("mpv exited"))
               /\ mpv'.pc = "start"
               /\ mpv'.cmd_q = mpv.cmd_q
       /\ (mpv.pc \in {"start", "connecting", "backoff"}
           /\ mpv'.pc \in {"start", "connecting", "backoff", "connected"}
           /\ last'.kind \in {"SupSpawn", "SupConnected", "SupConnectTimeout",
                              "SupBackoffDone"})
            => /\ mpv'.cmd_q = mpv.cmd_q
               /\ mpv'.pc = "connected"
                    => mpv'.evt_q = Append(mpv.evt_q, EvtReady)
       /\ (last'.kind = "Ready" /\ IsSome(current_url))
            => /\ sent' # <<>>
               /\ Head(sent') = LoadUrl(Unwrap(current_url))
               /\ mpv'.cmd_q = mpv.cmd_q \o sent']_vars

\* the controller has handled the Ready of a second session and re-issued
\* LoadUrl, while the supervisor has taken no command from its queue: the
\* queue holds SetTitle and LoadUrl of the Play, and LoadUrl and SetPause of
\* this Ready
C14_Witness ==
    /\ last.kind = "Ready"
    /\ IsSome(current_url)
    /\ sent = <<LoadUrl(Unwrap(current_url)), SetPause(want_paused)>>
    /\ mpv.spawns <= MaxSessions - 2
    /\ Len(mpv.cmd_q) = 4

\* C15: the delays slept since the last connect (or the start) are 200, 400,
\* 800, 1600, 3200, 5000, 5000, ... ms, one per failed spawn/connect; the
\* backoff is between 200 ms and 5 s, it is 200 ms in a session, and a sleep
\* follows only a failed spawn/connect: after a session has aborted the
\* supervisor is at the top of its loop.
C15_Backoff ==
    /\ mpv.backoff >= 200
    /\ mpv.backoff <= 5000
    /\ Len(mpv.slept) = mpv.fails
    /\ \A i \in 1..Len(mpv.slept) :
          mpv.slept[i] = Min(200 * Pow2(i - 1), 5000)
    /\ mpv.pc \in {"start", "connecting"}
        => mpv.backoff = Min(200 * Pow2(mpv.fails), 5000)
    /\ mpv.pc = "connected" => (mpv.backoff = 200 /\ mpv.slept = <<>>)
    /\ mpv.pc = "backoff" => last.kind \in {"SupSpawn", "SupConnectTimeout"}
    /\ last.kind = "SupChildExit" => (mpv.pc = "start" /\ mpv.slept = <<>>)

\* seven failures in a row: the ceiling is reached and kept
C15_Witness ==
    /\ mpv.pc = "backoff"
    /\ mpv.slept = <<200, 400, 800, 1600, 3200, 5000, 5000>>

\* C16 as stated: the supervision loop has ended only if a Shutdown command
\* was dequeued, and then the child is killed and the loop stays ended.
C16_EndsOnlyByShutdown ==
    /\ mpv.pc \in {"done", "cancelled"} => mpv.shutdown
    /\ mpv.shutdown => (mpv.pc = "done" /\ mpv.child = "killed")

\* C16, amended: run_mpv has returned only if a Shutdown command was
\* dequeued or the command channel is closed (controller_main has
\* returned); its task is dropped only with the controller's runtime; once a
\* Shutdown command was dequeued the child is killed and the loop stays
\* ended.
C16_EndsByShutdownOrClose ==
    /\ mpv.pc = "done" => (mpv.shutdown \/ Closed)
    /\ mpv.pc = "cancelled" => pc = "exited"
    /\ mpv.shutdown => (mpv.pc = "done" /\ mpv.child = "killed")

\* run_mpv has returned at the top of its loop on the closed channel, the
\* Shutdown command still in the queue
C16_Witness ==
    /\ mpv.pc = "done"
    /\ ~mpv.shutdown
    /\ mpv.cmd_q = <<CmdShutdown>>

\* C17: once the controller thread has ended after the UI sent Shutdown, no
\* player process the supervisor started is left running.
C17_NoPlayerLeft ==
    (pc = "exited" /\ mpv.ui_shutdown)
        => (mpv.child # "alive" /\ mpv.orphans = 0)

\* C18 as stated: when the controller has terminated by processing
\* Shutdown, every UI command sent before it has been processed; when the
\* supervisor has taken Shutdown, every command enqueued before it has been
\* taken from the queue and written to the player.
C18_ShutdownInOrder ==
    /\ (pc \in {"stopped", "exited"} /\ inputs.cmds > 0)
        => (mpv.ui_shutdown /\ mpv.ui_q = <<>>)
    /\ mpv.shutdown => (mpv.cmd_q = <<>> /\ mpv.lost = 0)

\* C18, amended: when the controller has terminated by processing Shutdown,
\* every UI command sent before it has been processed; when the supervisor
\* has taken Shutdown, every command enqueued before it has been taken from
\* the queue; and a command taken in a session is written, or its write
\* fails, which drops the command and aborts the session with Crashed.
C18_ShutdownInQueueOrder ==
    /\ [](/\ (pc \in {"stopped", "exited"} /\ inputs.cmds > 0)
               => (mpv.ui_shutdown /\ mpv.ui_q = <<>>)
          /\ mpv.shutdown => mpv.cmd_q = <<>>)
    /\ [][(last'.kind = "SupCommand" /\ last'.arg # CmdShutdown)
            => /\ mpv.cmd_q = <<last'.arg>> \o mpv'.cmd_q
               /\ \/ /\ mpv'.pc = "connected"
                     /\ mpv'.lost = mpv.lost
                     /\ mpv'.evt_q = mpv.evt_q
                  \/ /\ mpv'.pc = "start"
                     /\ mpv'.lost = mpv.lost + 1
                     /\ (~Closed => mpv'.evt_q = Append(mpv.evt_q,
                            EvtCrashed("Write mpv IPC request")))]_vars

\* two UI commands were processed, the write of the first one's command
\* failed, and the supervisor took Shutdown in a later session
C18_Witness ==
    /\ mpv.shutdown
    /\ mpv.lost > 0
    /\ inputs.cmds = 2
    /\ pc = "exited"

\* C19: while the supervisor holds a running player process, no process of
\* an earlier session is still running.
C19_OnePlayer ==
    mpv.child = "alive" => mpv.orphans = 0

\* C20: Ready is sent for a session only when both observe_property
\* requests were written.
C20_ReadyNeedsObservers ==
    last.kind = "SupConnected" => mpv.observers = 2

\* C21: when the controller has handled a Ready event, the phase is not the
\* Error of an earlier crash of the player in a session, whatever the phase
\* was before the crash.
C21_CrashErrorHeals ==
    last.kind = "Ready"
        => ~(/\ state.phase = "Error"
             /\ state.error \in {Some(MpvErrorText(e)) :
                                    e \in {"mpv exited", "mpv IPC closed"}})

\* C22: when the controller has handled a failed lookup that is not stale, a
\* search or a resolution, the phase is Error, a non-empty error message is
\* set and the loop goes on.
C22_LookupFailureIsError ==
    (/\ last.kind \in {"SearchDone", "ResolveDone"}
     /\ ~last.arg.res.ok
     /\ IF last.kind = "SearchDone" THEN ~SearchStale(last.arg, state)
        ELSE ~ResolveStale(last.arg, state))
        => /\ state.phase = "Error"
           /\ IsSome(state.error)
           /\ Unwrap(state.error).msg # ""
           /\ pc = "loop"

\* C23: the controller is never inside a handler waiting for the sleep of
\* the Crashed handler or for the directory client's lock.
C23_HandlersNeverWait ==
    pc \notin {"crash_sleep", "await_rb"}

\* C24: when the controller is between two inputs, or has returned, the
\* published snapshot equals its state in every field.
C24_PublishedIsState ==
    pc \in {"loop", "stopped", "exited"} => published = state

\* C25: when controller_main has returned because the config did not load
\* or the start of the loop failed, the published snapshot has phase Error
\* and an error message.
C25_StopIsPublished ==
    last.kind \in {"LoadConfigFails", "StartLoopFails"}
        => /\ published.phase = "Error"
           /\ IsSome(published.error)

\* C26: a step that enqueues commands while run_mpv is at the top of its
\* loop, connecting, in a session or in its backoff sleep appends them to
\* the queue in order; the queue loses a command only when a session takes
\* its head; no other step changes it.
C26_CommandEnqueue ==
    [][IF last'.kind = "SupCommand"
       THEN /\ mpv.pc = "connected"
            /\ mpv.cmd_q = <<last'.arg>> \o mpv'.cmd_q
       ELSE IF mpv.pc \in {"start", "connecting", "connected", "backoff"}
            THEN mpv'.cmd_q = mpv.cmd_q \o sent'
            ELSE mpv'.cmd_q = mpv.cmd_q]_vars

\* no session was established yet, the first spawn has failed, and the
\* commands of a TogglePause and of a Stop wait in the queue in order
C26_Witness ==
    /\ mpv.pc = "backoff"
    /\ mpv.spawns = MaxSessions - 1
    /\ mpv.cmd_q = <<CmdTogglePause, CmdStop, SetTitle("")>>

\* C27: the client sleeps 200, 400, 800 ms, one sleep after each failed
\* attempt but the last: a lookup whose four attempts all failed has slept
\* three times when it returns.
C27_SleepsBetweenAttempts ==
    /\ \A i \in 1..Len(dir.sleeps) : dir.sleeps[i] = 200 * Pow2(i - 1)
    /\ (dir.pc = "done" /\ Len(dir.log) = 4 /\ ~dir.log[4].ok)
        => dir.sleeps = <<200, 400, 800>>

\* C28: the handler of Ready with a desired URL enqueues LoadUrl of that URL
\* and then SetPause(want_paused), sets the phase Paused or Playing by
\* want_paused, clears the error and publishes; with no desired URL it
\* enqueues nothing, changes nothing and publishes nothing.  want_paused is
\* the value of the last Pause event, or false after a Play: no other step of
\* these runs changes it.
C28_ReadyReloads ==
    [][/\ last'.kind = "Ready"
            => IF IsSome(current_url)
               THEN /\ sent' = <<LoadUrl(Unwrap(current_url)),
                                 SetPause(want_paused)>>
                    /\ mpv'.cmd_q = mpv.cmd_q \o sent'
                    /\ state' = [state EXCEPT
                                    !.phase = IF want_paused THEN "Paused"
                                              ELSE "Playing",
                                    !.error = None]
                    /\ published' = state'
                    /\ sends' = 1
               ELSE /\ sent' = <<>>
                    /\ state' = state
                    /\ published' = published
                    /\ sends' = 0
       /\ last'.kind = "Pause" => want_paused' = last'.arg
       /\ last'.kind = "Play" => want_paused' = FALSE
       /\ last'.kind \notin {"Pause", "Play"} => want_paused' = want_paused]_vars

\* the player reported pause = true before it crashed, and the Ready of the
\* next session reloads the URL paused
C28_Witness ==
    /\ last.kind = "Ready"
    /\ IsSome(current_url)
    /\ sent = <<LoadUrl(Unwrap(current_url)), SetPause(TRUE)>>
    /\ state.phase = "Paused"
    /\ mpv.spawns <= MaxSessions - 2

\* C29: whenever search_loading is true, later either the controller has
\* returned on Shutdown, or a SearchDone for the current query has been
\* handled: search_loading is false, and search_results holds its result or
\* the error is set.
C29_SearchCompletes ==
    state.search_loading
        ~> \/ Closed
           \/ /\ ~state.search_loading
              /\ last.kind = "SearchDone"
              /\ last.arg.query = state.search_query
              /\ IF last.arg.res.ok
                 THEN state.search_results = last.arg.res.val
                 ELSE IsSome(state.error)

\* three searches, jazz then news then jazz again, were handled and the
\* latest one is complete
C29_Witness ==
    /\ inputs.cmds = 3
    /\ state.search_query = "jazz"
    /\ ~state.search_loading
    /\ last.kind = "SearchDone"
    /\ pc = "loop"
    /\ waiting = <<>>
    /\ running = None
    /\ internal_q = <<>>

\* C30: in the sequence of the events sent, a MediaTitle or Pause follows a
\* Ready, a MediaTitle or a Pause, and a Ready is the first event or follows
\* a Crashed; while controller_main runs, the Crashed events are as many as
\* the spawn_and_connect calls that have ended, by a failure or by an
\* aborted session; a session that aborts appends one Crashed and nothing
\* else; and no step adds an event once run_mpv has ended.
C30_EventStream ==
    /\ [](\A i \in 1..Len(mpv.evt_q) :
            /\ mpv.evt_q[i].kind \in {"MediaTitle", "Pause"}
                => (i > 1 /\ mpv.evt_q[i - 1].kind # "Crashed")
            /\ mpv.evt_q[i].kind = "Ready"
                => (i = 1 \/ mpv.evt_q[i - 1].kind = "Crashed"))
    /\ [](~Closed
            => Cardinality({i \in 1..Len(mpv.evt_q) :
                              mpv.evt_q[i].kind = "Crashed"})
               = (MaxSessions - mpv.spawns)
                 - (IF mpv.pc \in {"connecting", "connected"} THEN 1 ELSE 0))
    /\ [][(mpv.pc = "connected" /\ mpv'.pc = "start" /\ ~Closed)
            => /\ Len(mpv'.evt_q) = Len(mpv.evt_q) + 1
               /\ SubSeq(mpv'.evt_q, 1, Len(mpv.evt_q)) = mpv.evt_q
               /\ mpv'.evt_q[Len(mpv'.evt_q)].kind = "Crashed"]_vars
    /\ [][mpv.pc \in {"done", "cancelled"} => mpv'.evt_q = mpv.evt_q]_vars

\* a session that reported a title and aborted, and the next session
C30_Witness ==
    /\ Len(mpv.evt_q) = 4
    /\ mpv.evt_q[1].kind = "Ready"
    /\ mpv.evt_q[2].kind = "MediaTitle"
    /\ mpv.evt_q[3].kind = "Crashed"
    /\ mpv.evt_q[4].kind = "Ready"


\* C31: in every controller state the phase is Playing or Paused only if a
\* station is selected, whatever the order of UI commands and player events
\* (a Pause event after a Stop or before any Play included).
C31_PlayingHasStation ==
    state.phase \in {"Playing", "Paused"} => IsSome(state.station)

\* C32: every LoadUrl the controller enqueues carries the URL resolved for
\* the station selected at that moment. The desired URL and the config's
\* last station are set together by a successful resolution (lines 275, 281)
\* and unset together by Stop (lines 181, 192), so the station the desired
\* URL was resolved for is config.last_station: a step that enqueues a
\* LoadUrl leaves a selected station with that station's id.
C32_LoadUrlOfSelected ==
    (\E i \in 1..Len(sent) : sent[i].cmd = "LoadUrl")
        => /\ IsSome(state.station)
           /\ IsSome(config.last_station)
           /\ Unwrap(state.station).stationuuid
                = Unwrap(config.last_station).stationuuid

\* C34: in every published snapshot the phase Error comes with an error
\* message, whatever commands and events were processed (a Search or a
\* TogglePause issued while the phase is Error included).
C34_ErrorHasMessage ==
    published.phase = "Error" => IsSome(published.error)

\* C33: between the processing of a Stop and the processing of the next Play
\* the controller enqueues no LoadUrl, whatever resolution results and player
\* events arrive in between. Stop leaves no selected station and no desired
\* URL; from such a state of the loop every step other than a Play keeps
\* both unset and enqueues no LoadUrl.
C33_NoLoadAfterStop ==
    /\ [](last.kind = "Stop" => state.station = None /\ current_url = None)
    /\ [][(/\ pc \in {"loop", "crash_sleep", "await_rb"}
           /\ state.station = None
           /\ current_url = None
           /\ last'.kind # "Play")
          => /\ state'.station = None
             /\ current_url' = None
             /\ \A i \in 1..Len(sent') : sent'[i].cmd # "LoadUrl"]_vars

\* a successful resolution of the station played before the Stop has just
\* been received with no station selected, and nothing was enqueued
C33_Witness ==
    /\ last.kind = "ResolveDone"
    /\ last.arg.res.ok
    /\ state.station = None
    /\ state.phase = "NotConfigured"
    /\ config.last_station = None
    /\ inputs.cmds = 2
    /\ sent = <<>>

====
